---- MODULE Spec2Model ----
(***************************************************************************)
(* Model of src/src/main.rs: the declare -> deploy -> batch-transfer       *)
(* driver (main), the class probe (check_already_declared) and the receipt *)
(* poller (wait_for_tx).  The JSON-RPC node and the account are the        *)
(* environment: every answer they can give is a nondeterministic input.    *)
(* Times are in milliseconds.                                              *)
(***************************************************************************)
EXTENDS Integers, Sequences, FiniteSets, TLC

\* ---- bounds of the model -------------------------------------------------
MaxTransfers == 3
MaxStartNonce == 1
MaxClassHash == 2
MaxReason == 2
QueryStall == 20000
AddrBits == 11
MaxInput == 3
MaxCalldataLen == 2

\* ---- program constants ---------------------------------------------------
CHECK_INTERVAL == 500
WAIT_FOR_TX_TIMEOUT == 60000
ArtifactClassHash == 1

\* The field of FieldElement, scaled down from 251 bits to AddrBits bits:
\* the modulus has the shape of 2^251 + 17 * 2^192 + 1, the bound that of
\* 2^251 - 256.
FieldModulus == 2^AddrBits + 17 * 2^(AddrBits - 4) + 1
ADDR_BOUND == 2^AddrBits - 256
PREFIX_CONTRACT_ADDRESS == 523
ConstructorArgs == <<101, 103, 128, 15, 15, 4>>
NoAddress == -1

ClassHashes == 1..MaxClassHash
Reasons == 1..MaxReason
Latencies == {0, QueryStall}

VARIABLES
    pc,            \* position of main
    args,          \* number of transfers (argv[1])
    chain_nonce,   \* the account nonce the chain reports
    nonce,         \* main's local nonce
    block_id,      \* the account's block id
    class_hash,    \* main's class_hash binding
    declared,      \* what check_already_declared answered
    deployed,      \* what get_class_hash_at answered
    submitted,     \* transactions accepted by the node, in order
    vec,           \* transfer handles collected by the submit loop
    idx,           \* handles of vec already consumed by the await loop
    awaited,       \* finished wait_for_tx calls, in order
    polled,        \* handles in the order of their first receipt query
    result,        \* main's return value
    wpc,           \* position of wait_for_tx
    tx_hash,       \* wait_for_tx's handle
    elapsed,       \* start.elapsed() of the running wait_for_tx
    queries,       \* receipt queries of the running wait_for_tx
    sleeps,        \* sleeps of the running wait_for_tx
    nonterm,       \* non-terminal answers of the running wait_for_tx
    sawPending,    \* a pending receipt was among them
    lastResp,      \* the last answer to a receipt query
    wres,          \* wait_for_tx's return value
    salt,          \* the salt of the deployment
    constructor_args, \* the constructor calldata
    address        \* the derived contract address

addrVars == <<salt, constructor_args, address>>
mainVars == <<pc, args, chain_nonce, nonce, block_id, class_hash, declared,
              deployed, submitted, vec, idx, result, addrVars>>
waitVars == <<wpc, tx_hash, elapsed, queries, sleeps, nonterm, sawPending,
              lastResp, wres>>
vars == <<mainVars, waitVars, awaited, polled>>

\* ---- values --------------------------------------------------------------
Outcome(k, r) == [kind |-> k, reason |-> r]
Running == Outcome("Running", 0)
OkResult == Outcome("Ok", 0)
Succeeded == Outcome("Succeeded", 0)
NoResp == [kind |-> "None", exec |-> "None", reason |-> 0]

\* answers of get_transaction_receipt
ReceiptResponses ==
    {[kind |-> "Receipt", exec |-> "Succeeded", reason |-> 0],
     [kind |-> "PendingReceipt", exec |-> "Succeeded", reason |-> 0],
     [kind |-> "TransactionHashNotFound", exec |-> "None", reason |-> 0],
     [kind |-> "OtherError", exec |-> "None", reason |-> 0]}
    \cup {[kind |-> k, exec |-> "Reverted", reason |-> r] :
            k \in {"Receipt", "PendingReceipt"}, r \in Reasons}

\* answers of get_class
ClassResponses == {"Ok", "ClassHashNotFound", "OtherError"}

\* answers of get_class_hash_at
ClassHashAtResponses ==
    {[kind |-> "Ok", hash |-> h] : h \in ClassHashes}
    \cup {[kind |-> k, hash |-> 0] : k \in {"ContractNotFound", "OtherError"}}
NoProbe == [kind |-> "None", hash |-> 0]

Init ==
    /\ pc = "get_nonce"
    /\ args \in 0..MaxTransfers
    /\ chain_nonce \in 0..MaxStartNonce
    /\ nonce = 0
    /\ block_id = "latest"
    /\ class_hash = ArtifactClassHash
    /\ declared = "None"
    /\ deployed = NoProbe
    /\ submitted = <<>>
    /\ vec = <<>>
    /\ idx = 0
    /\ awaited = <<>>
    /\ polled = <<>>
    /\ result = Running
    /\ wpc = "idle"
    /\ tx_hash = 0
    /\ elapsed = 0
    /\ queries = 0
    /\ sleeps = 0
    /\ nonterm = 0
    /\ sawPending = FALSE
    /\ lastResp = NoResp
    /\ wres = Running
    /\ salt = 1
    /\ constructor_args = ConstructorArgs
    /\ address = NoAddress

\* ---- helpers of main -----------------------------------------------------
\* mutant: the error ends the submit loop (break) instead of main
AbortBreak(err) ==
    /\ pc' = "transfer_wait"
    /\ result' = err

\* `?' on an error, bail!: main returns Err
Abort(err) ==
    /\ pc' = "aborted"
    /\ result' = err

\* mutant: the increment is lost
AdvanceStuck(n) == n

\* nonce += FieldElement::ONE
Advance(n) == n + 1

\* mutant: the result of wait_for_tx is dropped instead of propagated
IsOkAlways(o) == TRUE

\* mutant: a timeout of the confirmation is tolerated
IsOkLenient(o) == o.kind \in {"Succeeded", "TimedOut"}

\* the `?' on a wait_for_tx: main goes on iff it returned Ok(())
IsOk(o) == o.kind = "Succeeded"

\* mutant: the range is one short
LoopContinuesShort(v, n) == Len(v) + 1 < n

\* mutant: the range is inclusive (0..=args)
LoopContinuesLong(v, n) == Len(v) <= n

\* `for _ in 0..args': another iteration follows v.len() submissions
LoopContinues(v, n) == Len(v) < n

\* mutant: the handles are taken from the back (vec.pop())
NextHandleBack(v, i) == v[Len(v) - i]

\* `for hash in vec': the handle after i consumed ones
NextHandle(v, i) == v[i + 1]

\* a send() the node accepted: the node logs the transaction
Submit(kind) == Append(submitted, [kind |-> kind, nonce |-> nonce])

\* the handle the node returns for the transaction it logs next
NextHash == Len(submitted) + 1

\* the most loop iterations one wait_for_tx can make; the counters of the
\* model saturate there
PollCap == WAIT_FOR_TX_TIMEOUT \div CHECK_INTERVAL + 1

\* one more query, sleep or non-terminal answer
Tally(c) == IF c < PollCap THEN c + 1 ELSE c

\* mutant: start is captured anew in every iteration of the loop
ElapseFrozen(e, d) == 0

\* start.elapsed() after a further d milliseconds
Elapse(e, d) == e + d

\* mutant: the receipt query comes first in the loop body
LoopHeadQuery == "query"

\* the first statement of the loop body: the timeout check, line 241
LoopHead == "check"

\* entry of wait_for_tx(hash): start = SystemTime::now()
WaitEnter(hash) ==
    /\ wpc' = LoopHead
    /\ tx_hash' = hash
    /\ elapsed' = 0
    /\ queries' = 0
    /\ sleeps' = 0
    /\ nonterm' = 0
    /\ sawPending' = FALSE
    /\ lastResp' = NoResp
    /\ wres' = Running

\* the locals of a returned wait_for_tx are dropped
WaitDrop ==
    /\ wpc' = "idle"
    /\ tx_hash' = 0
    /\ elapsed' = 0
    /\ queries' = 0
    /\ sleeps' = 0
    /\ nonterm' = 0
    /\ sawPending' = FALSE
    /\ lastResp' = NoResp
    /\ wres' = Running

\* ---- main, line 69 -------------------------------------------------------
GetNonce ==
    /\ pc = "get_nonce"
    /\ \E ok \in BOOLEAN :
        IF ok
        THEN /\ nonce' = chain_nonce
             /\ pc' = "check_declared"
             /\ UNCHANGED result
        ELSE /\ Abort(Outcome("ProviderError", 0))
             /\ UNCHANGED nonce
    /\ UNCHANGED <<addrVars, args, chain_nonce, block_id, class_hash, declared, deployed,
                   submitted, vec, idx, awaited, polled, waitVars>>

\* mutant: the two Ok arms are swapped
check_already_declared_swapped(resp) ==
    CASE resp = "Ok" -> [ok |-> TRUE, value |-> FALSE]
      [] resp = "ClassHashNotFound" -> [ok |-> TRUE, value |-> TRUE]
      [] OTHER -> [ok |-> FALSE, value |-> FALSE]

\* mutant: every error is taken for "not declared"
check_already_declared_catchall(resp) ==
    CASE resp = "Ok" -> [ok |-> TRUE, value |-> TRUE]
      [] OTHER -> [ok |-> TRUE, value |-> FALSE]

\* ---- check_already_declared, lines 211-229 -------------------------------
check_already_declared(resp) ==
    CASE resp = "Ok" -> [ok |-> TRUE, value |-> TRUE]
      [] resp = "ClassHashNotFound" -> [ok |-> TRUE, value |-> FALSE]
      [] OTHER -> [ok |-> FALSE, value |-> FALSE]

\* ---- main, line 71 -------------------------------------------------------
CheckDeclared ==
    /\ pc = "check_declared"
    /\ \E resp \in ClassResponses :
        LET r == check_already_declared(resp) IN
        /\ declared' = resp
        /\ IF ~r.ok
           THEN Abort(Outcome("ProviderError", 0))
           ELSE /\ UNCHANGED result
                /\ pc' = IF r.value THEN "probe_deployed" ELSE "declare_send"
    /\ UNCHANGED <<addrVars, args, chain_nonce, nonce, block_id, class_hash, deployed,
                   submitted, vec, idx, awaited, polled, waitVars>>

\* ---- main, lines 76-85 ---------------------------------------------------
DeclareSend ==
    /\ pc = "declare_send"
    /\ block_id' = "pending"
    /\ \/ /\ Abort(Outcome("SubmitError", 0))
          /\ UNCHANGED <<submitted, waitVars>>
       \/ /\ submitted' = Submit("declare")
          /\ pc' = "declare_wait"
          /\ WaitEnter(NextHash)
          /\ UNCHANGED result
    /\ UNCHANGED <<addrVars, args, chain_nonce, nonce, class_hash, declared, deployed,
                   vec, idx, awaited, polled>>

\* ---- wait_for_tx, lines 233-281 ------------------------------------------
\* return of wait_for_tx
WaitReturn(o) ==
    /\ wpc' = "returned"
    /\ wres' = o
    /\ awaited' = Append(awaited, [hash |-> tx_hash, outcome |-> o])

\* mutant: `>' for `>='
TimedOutNowStrict == elapsed > WAIT_FOR_TX_TIMEOUT

\* lines 241-243: the timeout check at the head of the loop
TimedOutNow == elapsed >= WAIT_FOR_TX_TIMEOUT

WaitCheckTimeout ==
    /\ wpc = "check"
    /\ IF TimedOutNow
       THEN WaitReturn(Outcome("TimedOut", 0))
       ELSE /\ wpc' = "query"
            /\ UNCHANGED <<wres, awaited>>
    /\ UNCHANGED <<mainVars, polled, tx_hash, elapsed, queries, sleeps,
                   nonterm, sawPending, lastResp>>

\* mutant: the execution result of a pending receipt is not looked at
ClassifyPendingWaits(resp) ==
    CASE resp.kind = "Receipt" /\ resp.exec = "Succeeded" -> Succeeded
      [] resp.kind = "Receipt" /\ resp.exec = "Reverted" ->
            Outcome("Reverted", resp.reason)
      [] resp.kind = "PendingReceipt" -> Outcome("Sleep", 0)
      [] resp.kind = "TransactionHashNotFound" -> Outcome("Sleep", 0)
      [] OTHER -> Outcome("Failed", 0)

\* mutant: every provider error is waited out like transaction-not-found
ClassifyRetryAll(resp) ==
    CASE resp.kind = "Receipt" /\ resp.exec = "Succeeded" -> Succeeded
      [] resp.kind = "Receipt" /\ resp.exec = "Reverted" ->
            Outcome("Reverted", resp.reason)
      [] resp.kind = "PendingReceipt" /\ resp.exec = "Reverted" ->
            Outcome("Reverted", resp.reason)
      [] OTHER -> Outcome("Sleep", 0)

\* mutant: a pending receipt with execution Succeeded is taken for final
ClassifyPendingOk(resp) ==
    CASE resp.kind \in {"Receipt", "PendingReceipt"}
            /\ resp.exec = "Succeeded" -> Succeeded
      [] resp.kind \in {"Receipt", "PendingReceipt"}
            /\ resp.exec = "Reverted" -> Outcome("Reverted", resp.reason)
      [] resp.kind = "TransactionHashNotFound" -> Outcome("Sleep", 0)
      [] OTHER -> Outcome("Failed", 0)

\* lines 245-279: what one answer of get_transaction_receipt leads to
Classify(resp) ==
    CASE resp.kind = "Receipt" /\ resp.exec = "Succeeded" -> Succeeded
      [] resp.kind = "Receipt" /\ resp.exec = "Reverted" ->
            Outcome("Reverted", resp.reason)
      [] resp.kind = "PendingReceipt" /\ resp.exec = "Reverted" ->
            Outcome("Reverted", resp.reason)
      [] resp.kind = "PendingReceipt" -> Outcome("Sleep", 0)
      [] resp.kind = "TransactionHashNotFound" -> Outcome("Sleep", 0)
      [] OTHER -> Outcome("Failed", 0)

\* mutant: the loop goes round without sleeping
AfterQueryNoSleep(o) == IF o.kind = "Sleep" THEN "check" ELSE "returned"

\* where wait_for_tx stands after an answer: lines 265, 272 sleep, the
\* other arms return
AfterQuery(o) == IF o.kind = "Sleep" THEN "sleep" ELSE "returned"

WaitQuery ==
    /\ wpc = "query"
    /\ \E resp \in ReceiptResponses, lat \in Latencies :
        LET o == Classify(resp) IN
        /\ queries' = Tally(queries)
        /\ elapsed' = Elapse(elapsed, lat)
        /\ lastResp' = resp
        /\ polled' = IF queries = 0 THEN Append(polled, tx_hash) ELSE polled
        /\ IF o.kind = "Sleep"
           THEN /\ wpc' = AfterQuery(o)
                /\ nonterm' = Tally(nonterm)
                /\ sawPending' = (sawPending \/ resp.kind = "PendingReceipt")
                /\ UNCHANGED <<wres, awaited>>
           ELSE /\ WaitReturn(o)
                /\ UNCHANGED <<nonterm, sawPending>>
    /\ UNCHANGED <<mainVars, tx_hash, sleeps>>

\* lines 265, 272: tokio::time::sleep(check_interval)
WaitSleep ==
    /\ wpc = "sleep"
    /\ elapsed' = Elapse(elapsed, CHECK_INTERVAL)
    /\ sleeps' = Tally(sleeps)
    /\ wpc' = LoopHead
    /\ UNCHANGED <<mainVars, awaited, polled, tx_hash, queries, nonterm,
                   sawPending, lastResp, wres>>

\* ---- main, lines 85-90 ---------------------------------------------------
DeclareJoin ==
    /\ pc = "declare_wait"
    /\ wpc = "returned"
    /\ IF IsOk(wres)
       THEN /\ nonce' = Advance(nonce)
            /\ \E h \in ClassHashes : class_hash' = h   \* tx_resp.class_hash
            /\ pc' = "probe_deployed"
            /\ UNCHANGED result
       ELSE /\ Abort(wres)
            /\ UNCHANGED <<nonce, class_hash>>
    /\ WaitDrop
    /\ UNCHANGED <<addrVars, args, chain_nonce, block_id, declared, deployed, submitted,
                   vec, idx, awaited, polled>>

\* ---- compute_contract_address, lines 181-209 -----------------------------
\* starknet::core::crypto: a stand-in for the Pedersen hash of two field
\* elements, with values in the field
pedersen_hash(a, b) == (a * 1103 + b * 787 + 12345) % FieldModulus

RECURSIVE HashChain(_, _, _)
HashChain(data, i, h) ==
    IF i > Len(data) THEN h
    ELSE HashChain(data, i + 1, pedersen_hash(h, data[i]))

\* starknet::core::crypto::compute_hash_on_elements: the elements are
\* chained from 0 and the length is hashed in last
compute_hash_on_elements(data) ==
    pedersen_hash(HashChain(data, 1, 0), Len(data))

\* mutant: the reduction modulo ADDR_BOUND is missing
compute_contract_address_unreduced(s, c, calldata) ==
    compute_hash_on_elements(
        <<PREFIX_CONTRACT_ADDRESS, 0, s, c, compute_hash_on_elements(calldata)>>)

compute_contract_address(s, c, calldata) ==
    compute_hash_on_elements(
        <<PREFIX_CONTRACT_ADDRESS, 0, s, c, compute_hash_on_elements(calldata)>>)
    % ADDR_BOUND

\* mutant: the else branch with the bail! is missing
DeployDecisionNoBail(resp, expected) ==
    IF resp.kind = "Ok" THEN "skip" ELSE "deploy"

\* ---- main, lines 110-121 -------------------------------------------------
\* the three branches of `if let Ok(h) = get_class_hash_at(..)'
DeployDecision(resp, expected) ==
    IF resp.kind = "Ok"
    THEN IF resp.hash = expected THEN "skip" ELSE "conflict"
    ELSE "deploy"

ProbeDeployed ==
    /\ pc = "probe_deployed"
    /\ \E resp \in ClassHashAtResponses :
        LET d == DeployDecision(resp, class_hash) IN
        /\ deployed' = resp
        /\ address' = compute_contract_address(salt, class_hash,
                                               constructor_args)
        /\ CASE d = "skip" -> pc' = "transfer_send" /\ UNCHANGED result
             [] d = "conflict" -> Abort(Outcome("ConfigConflict", 0))
             [] OTHER -> pc' = "deploy_send" /\ UNCHANGED result
    /\ UNCHANGED <<salt, constructor_args, args, chain_nonce, nonce, block_id,
                   class_hash, declared, submitted, vec, idx, awaited, polled,
                   waitVars>>

\* ---- main, lines 122-130 -------------------------------------------------
DeploySend ==
    /\ pc = "deploy_send"
    /\ \/ /\ Abort(Outcome("SubmitError", 0))
          /\ UNCHANGED <<submitted, waitVars>>
       \/ /\ submitted' = Submit("deploy")
          /\ pc' = "deploy_wait"
          /\ WaitEnter(NextHash)
          /\ UNCHANGED result
    /\ UNCHANGED <<addrVars, args, chain_nonce, nonce, block_id, class_hash, declared,
                   deployed, vec, idx, awaited, polled>>

\* ---- main, lines 130-138 -------------------------------------------------
DeployJoin ==
    /\ pc = "deploy_wait"
    /\ wpc = "returned"
    /\ IF IsOk(wres)
       THEN /\ nonce' = Advance(nonce)
            /\ pc' = "transfer_send"
            /\ UNCHANGED result
       ELSE /\ Abort(wres)
            /\ UNCHANGED nonce
    /\ WaitDrop
    /\ UNCHANGED <<addrVars, args, chain_nonce, block_id, class_hash, declared, deployed,
                   submitted, vec, idx, awaited, polled>>

\* ---- main, lines 161-172: one iteration of the submit loop ---------------
TransferSend ==
    /\ pc = "transfer_send"
    /\ LoopContinues(vec, args)
    /\ \/ /\ Abort(Outcome("SubmitError", 0))
          /\ UNCHANGED <<submitted, vec, nonce>>
       \/ /\ submitted' = Submit("transfer")
          /\ vec' = Append(vec, NextHash)
          /\ nonce' = Advance(nonce)
          /\ UNCHANGED <<pc, result>>
    /\ UNCHANGED <<addrVars, args, chain_nonce, block_id, class_hash, declared, deployed,
                   idx, awaited, polled, waitVars>>

\* ---- main, lines 161, 174: the submit loop ends, the await loop begins ---
TransfersSent ==
    /\ pc = "transfer_send"
    /\ ~LoopContinues(vec, args)
    /\ pc' = "transfer_wait"
    /\ UNCHANGED <<addrVars, args, chain_nonce, nonce, block_id, class_hash, declared,
                   deployed, submitted, vec, idx, result, awaited, polled,
                   waitVars>>

\* ---- main, lines 174-178: `for hash in vec', then Ok(()) -----------------
TransferWaitNext ==
    /\ pc = "transfer_wait"
    /\ wpc = "idle"
    /\ IF idx < Len(vec)
       THEN /\ idx' = idx + 1
            /\ WaitEnter(NextHandle(vec, idx))
            /\ UNCHANGED <<pc, result>>
       ELSE /\ pc' = "done"
            /\ result' = OkResult
            /\ UNCHANGED <<idx, waitVars>>
    /\ UNCHANGED <<addrVars, args, chain_nonce, nonce, block_id, class_hash, declared,
                   deployed, submitted, vec, awaited, polled>>

\* ---- main, line 175: the `?' on a transfer's wait_for_tx -----------------
TransferJoin ==
    /\ pc = "transfer_wait"
    /\ wpc = "returned"
    /\ IF IsOk(wres)
       THEN UNCHANGED <<pc, result>>
       ELSE Abort(wres)
    /\ WaitDrop
    /\ UNCHANGED <<addrVars, args, chain_nonce, nonce, block_id, class_hash, declared,
                   deployed, submitted, vec, idx, awaited, polled>>

Next ==
    \/ GetNonce
    \/ CheckDeclared
    \/ DeclareSend
    \/ DeclareJoin
    \/ ProbeDeployed
    \/ DeploySend
    \/ DeployJoin
    \/ TransferSend
    \/ TransfersSent
    \/ TransferWaitNext
    \/ TransferJoin
    \/ WaitCheckTimeout
    \/ WaitQuery
    \/ WaitSleep

Spec == Init /\ [][Next]_vars

\* ---- compute_contract_address on its own ---------------------------------
AddrInputs == 0..MaxInput
Calldatas ==
    UNION {[1..n -> AddrInputs] : n \in 0..MaxCalldataLen}

AddrInit ==
    /\ pc = "derive"
    /\ salt \in AddrInputs
    /\ class_hash \in AddrInputs
    /\ constructor_args \in Calldatas
    /\ address = NoAddress
    /\ args = 0
    /\ chain_nonce = 0
    /\ nonce = 0
    /\ block_id = "latest"
    /\ declared = "None"
    /\ deployed = NoProbe
    /\ submitted = <<>>
    /\ vec = <<>>
    /\ idx = 0
    /\ awaited = <<>>
    /\ polled = <<>>
    /\ result = Running
    /\ wpc = "idle"
    /\ tx_hash = 0
    /\ elapsed = 0
    /\ queries = 0
    /\ sleeps = 0
    /\ nonterm = 0
    /\ sawPending = FALSE
    /\ lastResp = NoResp
    /\ wres = Running

DeriveAddress ==
    /\ pc = "derive"
    /\ address' = compute_contract_address(salt, class_hash, constructor_args)
    /\ pc' = "derived"
    /\ UNCHANGED <<salt, constructor_args, args, chain_nonce, nonce, block_id,
                   class_hash, declared, deployed, submitted, vec, idx, result,
                   awaited, polled, waitVars>>

AddrSpec == AddrInit /\ [][DeriveAddress]_vars

\* one thread of control: when every provider call returns and every sleep
\* ends, the step the program stands at is eventually taken
\* No step of the program is guarded by the value of the nonce, and a run
\* with fewer transfers goes through a prefix of the steps of a longer one:
\* liveness is checked from one chain nonce, for the empty and the longest
\* batch.
FairInit ==
    /\ Init
    /\ chain_nonce = MaxStartNonce
    /\ args \in {0, MaxTransfers}

FairSpec == FairInit /\ [][Next]_vars /\ WF_vars(Next)

TypeOK ==
    /\ pc \in {"get_nonce", "check_declared", "declare_send", "declare_wait",
               "probe_deployed", "deploy_send", "deploy_wait", "transfer_send",
               "transfer_wait", "done", "aborted", "derive", "derived"}
    /\ address \in {NoAddress} \cup 0..(ADDR_BOUND - 1)
    /\ wpc \in {"idle", "check", "query", "sleep", "returned"}
    /\ nonce \in Nat
    /\ Len(vec) <= args
    /\ idx <= Len(vec)

\* ---- properties ----------------------------------------------------------
HasKind(k) == \E i \in 1..Len(submitted) : submitted[i].kind = k
Count(k) == Cardinality({i \in 1..Len(submitted) : submitted[i].kind = k})
IsTransferHandle(h) == \E i \in 1..Len(vec) : vec[i] = h
Hashes(log) == [i \in 1..Len(log) |-> log[i].hash]
Awaiting == wpc \in {"check", "query", "sleep"}

\* C1: the i-th transaction the node accepted (counted from 0) carries the
\* nonce chain_nonce + i, so the nonces of one run are strictly increasing
\* and pairwise different.
C1_NonceSequence ==
    /\ \A i \in 1..Len(submitted) : submitted[i].nonce = chain_nonce + (i - 1)
    /\ \A i, j \in 1..Len(submitted) :
          i < j => submitted[i].nonce < submitted[j].nonce

C1_Witness ==
    /\ chain_nonce = 1
    /\ Len(submitted) = 4
    /\ submitted[1].kind = "declare"
    /\ submitted[2].kind = "deploy"
    /\ submitted[4].kind = "transfer"

\* C2: no receipt of a transfer handle is queried before all args transfers
\* were submitted; the transfer handles are then awaited one at a time, in
\* the order of their submission.
TransfersPolled == SelectSeq(polled, IsTransferHandle)
TransfersAwaited == SelectSeq(Hashes(awaited), IsTransferHandle)

C2_BatchThenAwaitInOrder ==
    /\ (pc = "transfer_send" /\ LoopContinues(vec, args)) => ~Awaiting
    /\ TransfersPolled # <<>> => Len(vec) = args
    /\ (Awaiting /\ IsTransferHandle(tx_hash)) => Len(vec) = args
    /\ Len(TransfersPolled) <= Len(vec)
    /\ TransfersPolled = SubSeq(vec, 1, Len(TransfersPolled))
    /\ Len(TransfersAwaited) <= Len(TransfersPolled)
    /\ Len(TransfersPolled) <= Len(TransfersAwaited) + 1
    /\ TransfersAwaited = SubSeq(vec, 1, Len(TransfersAwaited))

C2_Witness ==
    /\ args = 3
    /\ Len(TransfersPolled) = 3
    /\ Len(TransfersAwaited) = 2

\* C3: against a chain that reports the class declared and the address
\* deployed with the matching class hash, no declare and no deploy is
\* submitted and the first transfer carries the chain's nonce.
C3_Idempotent ==
    (declared = "Ok" /\ deployed.kind = "Ok" /\ deployed.hash = class_hash) =>
        /\ ~HasKind("declare")
        /\ ~HasKind("deploy")
        /\ pc # "aborted" => nonce = chain_nonce + Len(submitted)
        /\ Len(submitted) >= 1 =>
              submitted[1] = [kind |-> "transfer", nonce |-> chain_nonce]

C3_Witness ==
    /\ declared = "Ok"
    /\ deployed.kind = "Ok"
    /\ deployed.hash = class_hash
    /\ chain_nonce = 1
    /\ pc = "done"
    /\ Len(submitted) = 2

\* C4: when the chain reports a class hash at the target address that
\* differs from the expected one, the run is aborted and neither a deploy
\* nor a transfer is ever submitted.
C4_ConflictAborts ==
    (deployed.kind = "Ok" /\ deployed.hash # class_hash) =>
        /\ pc = "aborted"
        /\ result.kind = "ConfigConflict"
        /\ Count("deploy") = 0
        /\ Count("transfer") = 0

C4_Witness ==
    /\ deployed.kind = "Ok"
    /\ deployed.hash # class_hash
    /\ pc = "aborted"
    /\ HasKind("declare")
    /\ args > 0

\* C5: class undeclared, address undeployed: the submissions are, in this
\* order, one declare, one deploy and args transfers with the nonces
\* chain_nonce, chain_nonce + 1, ...; the run aborts only on a failed
\* submission or confirmation, and it ends with args + 2 submissions,
\* args + 2 confirmations and the local nonce chain_nonce + args + 2.
ExpectedKind(i) ==
    IF i = 1 THEN "declare" ELSE IF i = 2 THEN "deploy" ELSE "transfer"

C5_FullRun ==
    (declared = "ClassHashNotFound" /\ deployed.kind = "ContractNotFound") =>
        /\ Len(submitted) <= args + 2
        /\ \A i \in 1..Len(submitted) :
              submitted[i] = [kind |-> ExpectedKind(i),
                              nonce |-> chain_nonce + i - 1]
        /\ pc = "aborted" =>
              result.kind \in {"SubmitError", "Reverted", "TimedOut", "Failed"}
        /\ pc = "done" =>
              /\ result = OkResult
              /\ Len(submitted) = args + 2
              /\ Len(awaited) = args + 2
              /\ Hashes(awaited) = [i \in 1..(args + 2) |-> i]
              /\ \A i \in 1..Len(awaited) : awaited[i].outcome = Succeeded
              /\ nonce = chain_nonce + args + 2

C5_Witness ==
    /\ declared = "ClassHashNotFound"
    /\ deployed.kind = "ContractNotFound"
    /\ args = 3
    /\ pc = "done"
    /\ Len(submitted) = 5
    /\ Len(awaited) = 5

\* C6: the run ends with Ok only if every awaited confirmation returned
\* Succeeded; a confirmation that did not is the last one awaited, no later
\* handle is ever polled, and the run ends with that error.
C6_FirstFailureEndsRun ==
    /\ pc = "done" => \A i \in 1..Len(awaited) : awaited[i].outcome = Succeeded
    /\ \A i \in 1..Len(awaited) :
          awaited[i].outcome # Succeeded =>
              /\ i = Len(awaited)
              /\ awaited[i].outcome.kind \in {"Reverted", "TimedOut", "Failed"}
              /\ Len(polled) <= i
              /\ ~Awaiting
              /\ \/ wpc = "returned" /\ wres = awaited[i].outcome
                 \/ pc = "aborted" /\ result = awaited[i].outcome

C6_Witness ==
    /\ pc = "aborted"
    /\ args = 3
    /\ Len(vec) = 3
    /\ idx = 2
    /\ Len(awaited) = 4
    /\ result.kind = "Reverted"
    /\ Len(polled) = 4

\* C7: while a confirmation is awaited, and when the run has ended, the
\* local nonce is chain_nonce plus the number of transactions submitted.
C7_NonceCountsSubmissions ==
    (Awaiting \/ (pc \in {"done", "aborted"} /\ declared # "None")) =>
        nonce = chain_nonce + Len(submitted)

\* C8: a failure of get_class_hash_at other than "contract not found" is
\* never followed by a deploy submission.
C8_ProbeErrorNeverDeploys ==
    deployed.kind = "OtherError" => ~HasKind("deploy")

\* C9: check_already_declared is true on a successful lookup, false on
\* class-not-found and an error otherwise; on the error the run aborts with
\* no submission at all, and a declare is submitted only after
\* class-not-found.
C9_ClassProbe ==
    /\ declared = "OtherError" =>
          /\ pc = "aborted"
          /\ result.kind = "ProviderError"
          /\ submitted = <<>>
    /\ declared = "Ok" => pc # "declare_send" /\ ~HasKind("declare")
    /\ declared = "ClassHashNotFound" =>
          /\ result.kind # "ProviderError"
          /\ pc \in {"declare_send", "aborted"} \/ HasKind("declare")
    /\ HasKind("declare") => declared = "ClassHashNotFound"

C9_Witness ==
    /\ declared = "OtherError"
    /\ pc = "aborted"
    /\ chain_nonce = 1
    /\ args = 3

\* C10: when the answer to the last receipt query is a finalized receipt
\* with execution Succeeded, after k non-terminal answers, wait_for_tx
\* returns Succeeded having slept k times and queried k + 1 times.
C10_SleepsPerNonTerminal ==
    (wpc = "returned" /\ lastResp.kind = "Receipt"
        /\ lastResp.exec = "Succeeded") =>
        /\ wres = Succeeded
        /\ sleeps = nonterm
        /\ queries = nonterm + 1

C10_Witness ==
    /\ wpc = "returned"
    /\ wres = Succeeded
    /\ nonterm = 2
    /\ ~sawPending
    /\ sleeps = 2
    /\ queries = 3

\* C11: a pending receipt whose execution result is Reverted with reason R
\* makes wait_for_tx return Reverted(R) at that poll: no sleep and no
\* receipt query follows it.
PendingReverted == lastResp.kind = "PendingReceipt" /\ lastResp.exec = "Reverted"

C11_PendingRevertIsTerminal ==
    PendingReverted =>
        /\ wpc = "returned"
        /\ wres = Outcome("Reverted", lastResp.reason)
        /\ sleeps = nonterm
        /\ queries = sleeps + 1
        /\ awaited[Len(awaited)] =
              [hash |-> tx_hash, outcome |-> Outcome("Reverted", lastResp.reason)]

C11_Witness ==
    /\ PendingReverted
    /\ lastResp.reason = 2
    /\ wpc = "returned"
    /\ wres = Outcome("Reverted", 2)
    /\ queries = 2
    /\ sleeps = 1

\* C12: the timeout check of an iteration returns TimedOut exactly when the
\* time elapsed since the entry of this wait_for_tx call has reached the
\* timeout; below the timeout the iteration goes on to the receipt query.
SinceEntry ==
    /\ elapsed >= sleeps * CHECK_INTERVAL
    /\ elapsed <= sleeps * CHECK_INTERVAL + queries * QueryStall

C12_CheckStep ==
    (wpc = "check" /\ wpc' # "check") =>
        /\ SinceEntry
        /\ elapsed >= WAIT_FOR_TX_TIMEOUT =>
              /\ wpc' = "returned"
              /\ wres' = Outcome("TimedOut", 0)
        /\ elapsed < WAIT_FOR_TX_TIMEOUT =>
              /\ wpc' = "query"
              /\ wres' = Running

C12_TimedOutExactlyAtTimeout == [][C12_CheckStep]_vars

C12_Witness ==
    /\ wpc = "returned"
    /\ wres = Outcome("TimedOut", 0)
    /\ elapsed = WAIT_FOR_TX_TIMEOUT
    /\ Len(awaited) = 3
    /\ lastResp.kind \in {"TransactionHashNotFound", "PendingReceipt"}

\* C13: a receipt query that fails with an error other than
\* transaction-not-found makes wait_for_tx return Failed at once, without a
\* sleep or another query, and the run ends with that error.
C13_ProviderErrorIsTerminal ==
    /\ lastResp.kind = "OtherError" =>
          /\ wpc = "returned"
          /\ wres = Outcome("Failed", 0)
          /\ sleeps = nonterm
          /\ queries = sleeps + 1
    /\ \A i \in 1..Len(awaited) :
          awaited[i].outcome.kind = "Failed" =>
              /\ i = Len(awaited)
              /\ \/ wpc = "returned" /\ lastResp.kind = "OtherError"
                 \/ pc = "aborted" /\ result = Outcome("Failed", 0)

C13_Witness ==
    /\ pc = "aborted"
    /\ result = Outcome("Failed", 0)
    /\ Len(awaited) = 3
    /\ Len(polled) = 3
    /\ Len(submitted) = 5

\* C14: a deploy is submitted only when the class was found declared or the
\* declare was confirmed Succeeded; a transfer is submitted only when the
\* address was found deployed with the expected class hash or the deploy
\* was confirmed Succeeded.
Confirmed(k) ==
    \E i \in 1..Len(submitted), j \in 1..Len(awaited) :
        /\ submitted[i].kind = k
        /\ awaited[j] = [hash |-> i, outcome |-> Succeeded]

C14_NoSubmissionAheadOfFinality ==
    /\ (pc = "deploy_send" \/ HasKind("deploy")) =>
          declared = "Ok" \/ Confirmed("declare")
    /\ ((pc = "transfer_send" /\ args > 0) \/ HasKind("transfer")) =>
          \/ deployed.kind = "Ok" /\ deployed.hash = class_hash
          \/ Confirmed("deploy")

C14_Witness ==
    /\ Confirmed("declare")
    /\ Confirmed("deploy")
    /\ Count("transfer") = 2

\* C15: at most one declare, one deploy and args transfers are submitted,
\* and once a confirmation has returned anything but Succeeded or a
\* submission has failed, nothing more is submitted.
RunFailed ==
    \/ \E i \in 1..Len(awaited) : awaited[i].outcome # Succeeded
    \/ result.kind = "SubmitError"

C15_Counts ==
    /\ Count("declare") <= 1
    /\ Count("deploy") <= 1
    /\ Count("transfer") <= args
    /\ Len(submitted) <= args + 2

C15_NothingResubmitted ==
    [][C15_Counts' /\ (RunFailed => submitted' = submitted)]_vars

C15_Witness ==
    /\ pc = "aborted"
    /\ result.kind = "SubmitError"
    /\ args = 3
    /\ Count("declare") = 1
    /\ Count("deploy") = 1
    /\ Count("transfer") = 2

\* C16: every wait_for_tx call eventually returns one of Succeeded,
\* Reverted, TimedOut and Failed, and every run eventually ends with Ok or
\* an error.
Terminated == pc \in {"done", "aborted"}

C16_Terminates ==
    /\ [](wpc = "returned" =>
            wres.kind \in {"Succeeded", "Reverted", "TimedOut", "Failed"})
    /\ (Awaiting ~> wpc = "returned")
    /\ <>Terminated

C16_Witness ==
    /\ wpc = "returned"
    /\ wres.kind = "TimedOut"
    /\ sleeps = WAIT_FOR_TX_TIMEOUT \div CHECK_INTERVAL
    /\ pc = "transfer_wait"
    /\ idx = 3

\* C17: the derived address is the chained hash of
\* [prefix, 0, salt, class_hash, hash(calldata)] reduced modulo ADDR_BOUND,
\* and it is below ADDR_BOUND.
ChainedHash ==
    pedersen_hash(
        pedersen_hash(
            pedersen_hash(
                pedersen_hash(
                    pedersen_hash(
                        pedersen_hash(0, PREFIX_CONTRACT_ADDRESS),
                        0),
                    salt),
                class_hash),
            pedersen_hash(HashChain(constructor_args, 1, 0),
                          Len(constructor_args))),
        5)

C17_AddressBelowBound ==
    address # NoAddress =>
        /\ address >= 0
        /\ address < ADDR_BOUND
        /\ address = ChainedHash % ADDR_BOUND

C17_Witness ==
    /\ pc = "derived"
    /\ Len(constructor_args) = 2
    /\ ChainedHash >= ADDR_BOUND
    /\ address = ChainedHash - ADDR_BOUND

\* C18: a pending receipt with execution Succeeded does not end
\* wait_for_tx: a sleep and another iteration follow it, and Succeeded is
\* returned only when the last answer is a finalized receipt with
\* execution Succeeded.
PendingSucceeded ==
    lastResp.kind = "PendingReceipt" /\ lastResp.exec = "Succeeded"

C18_PendingSuccessIsNotTerminal ==
    /\ PendingSucceeded =>
          /\ wres.kind \in {"Running", "TimedOut"}
          /\ wpc \in {"sleep", "check", "query", "returned"}
          /\ wpc = "sleep" => queries = sleeps + 1
          /\ wpc # "sleep" => queries = sleeps
    /\ (wpc = "returned" /\ wres = Succeeded) =>
          lastResp = [kind |-> "Receipt", exec |-> "Succeeded", reason |-> 0]

C18_Witness ==
    /\ wpc = "returned"
    /\ wres = Succeeded
    /\ sawPending
    /\ nonterm = 2
    /\ sleeps = 2

\* C19: no receipt query is made in an iteration that starts with the
\* timeout reached: wait_for_tx returns TimedOut there, its last query
\* being the one before the last sleep.
C19_TimeoutCheckBeforeQuery ==
    /\ wpc = "query" => elapsed < WAIT_FOR_TX_TIMEOUT
    /\ (wpc = "returned" /\ wres.kind = "TimedOut") =>
          /\ elapsed >= WAIT_FOR_TX_TIMEOUT
          /\ queries = sleeps
          /\ lastResp.kind \in {"PendingReceipt", "TransactionHashNotFound"}

C19_Witness ==
    /\ wpc = "returned"
    /\ wres.kind = "TimedOut"
    /\ elapsed > WAIT_FOR_TX_TIMEOUT
    /\ queries = 3
    /\ sleeps = 3

\* C20: when a transfer submission fails after earlier transfers of the
\* batch were accepted, the run is aborted: no transfer follows and none of
\* the handles already collected is ever polled or awaited.
C20_FailedSubmitAbandonsBatch ==
    (result.kind = "SubmitError" /\ Len(vec) >= 1) =>
        /\ pc = "aborted"
        /\ wpc = "idle"
        /\ idx = 0
        /\ Len(vec) < args
        /\ Count("transfer") = Len(vec)
        /\ TransfersPolled = <<>>
        /\ TransfersAwaited = <<>>

C20_Witness ==
    /\ pc = "aborted"
    /\ result.kind = "SubmitError"
    /\ args = 3
    /\ Len(vec) = 2
    /\ Len(awaited) = 2

====
